---- MODULE Spec2Model ----
(***************************************************************************)
(* Graph construction and validation engine of ensmallen_graph:            *)
(* validate, Graph::new_directed and Graph::new_undirected, as found in    *)
(* the constructor source embedded in src/setup/DockerFileManylinux2010.   *)
(*                                                                         *)
(* One behaviour is one construction call: Init draws the caller's         *)
(* arguments, CallNewDirected / CallNewUndirected run the whole            *)
(* constructor and leave its outcome in `result`.  Indices, edge           *)
(* positions and offsets are 0-based as in the code; TLA+ sequences are    *)
(* 1-based, so At(v, i) reads v[i] of the code.                            *)
(*                                                                         *)
(* A second specification, ParSpec, follows one data-parallel pass of the  *)
(* constructors item by item, under every interleaving of its workers.     *)
(***************************************************************************)
EXTENDS Integers, Sequences, FiniteSets, Bags, TLC

VARIABLES
    sources,                    \* Vec<NodeT>
    destinations,               \* Vec<NodeT>
    nodes_mapping_len,          \* nodes_mapping.len() (only its len is read)
    nodes_reverse_mapping_len,  \* nodes_reverse_mapping.len()
    node_types,                 \* Option<Vec<NodeTypeT>>
    edge_types,                 \* Option<Vec<EdgeTypeT>>
    weights,                    \* Option<Vec<WeightT>>
    validate_input_data,        \* Option<bool>
    pc,                         \* "ready" before the call, "done" after it
    op,                         \* the entry point that was called
    result,                     \* outcome of the call: Graph, Err or Panic
    validated,                  \* the argument tuples validate() was run on
    order,                      \* the `indices` the sort of new_directed left
    par                         \* one parallel pass: its items, workers, slots

vars == <<sources, destinations, nodes_mapping_len, nodes_reverse_mapping_len,
          node_types, edge_types, weights, validate_input_data,
          pc, op, result, validated, order, par>>

----------------------------------------------------------------------------
(* Bounds of the model. *)

\* longest caller-supplied edge array
MaxEdges == 2

\* largest node id a caller puts in sources / destinations
MaxNodeId == 1

----------------------------------------------------------------------------
(* Value domains. *)

NodeIds == 0..MaxNodeId

\* f64 weights: one representative per class the validator tells apart
Weights == {"0.0", "-1.0", "1.0", "NaN", "inf", "-inf"}

\* valid weights, all different
ValidWeights == <<"1.0", "2.0", "3.0", "4.0">>

\* Option<T>
None == [some |-> FALSE, v |-> <<>>]

Some(x) == [some |-> TRUE, v |-> x]

\* Option<bool>
NoneBool == [some |-> FALSE, v |-> FALSE]

\* v[i] with the code's 0-based index
At(v, i) == v[i + 1]

Min(a, b) == IF a <= b THEN a ELSE b

\* all sequences over S with length in L
SeqsOfLen(S, L) == UNION {[1..k -> S] : k \in L}

\* lengths a side array may have next to an array of length n
Near(n, max) == {k \in 0..max : k >= n - 1 /\ k <= n + 1}

\* n, and one length that differs from n
OneOff(n, max) == {n, (n + 1) % (max + 1)}

\* a Vec<NodeTypeT> of length k (its content is never read)
NodeTypesOfLen(k) == [i \in 1..k |-> 0]

\* a Vec<WeightT> of length k whose entries are valid and all different
TaggedWeights(k) == [i \in 1..k |-> ValidWeights[i]]

\* a Vec<EdgeTypeT> of length k whose entries are all different
TaggedEdgeTypes(k) == [i \in 1..k |-> i - 1]

----------------------------------------------------------------------------
(* f64 comparisons and formatting used by validate. *)

\* *weight == 0.0
WeightIsZero(w) == w = "0.0"

\* *weight < 0.0 (false for NaN, true for -inf)
WeightIsNegative(w) == w \in {"-1.0", "-inf"}

\* weight.is_nan()
WeightIsNaN(w) == w = "NaN"

\* weight.is_infinite()
WeightIsInfinite(w) == w \in {"inf", "-inf"}

\* format!("{}", n) for a usize
FmtUsize(n) == At(<<"0", "1", "2", "3", "4", "5", "6", "7", "8", "9">>, n)

\* format!("{}", w) for an f64
FmtWeight(w) ==
    CASE w = "0.0" -> "0"
      [] w = "-1.0" -> "-1"
      [] w = "1.0" -> "1"
      [] w = "2.0" -> "2"
      [] w = "3.0" -> "3"
      [] w = "4.0" -> "4"
      [] w = "NaN" -> "NaN"
      [] w = "inf" -> "inf"
      [] w = "-inf" -> "-inf"

----------------------------------------------------------------------------
(* validate *)

Ok == [ok |-> TRUE, msg |-> "", args |-> <<>>]

Err(msg, args) == [ok |-> FALSE, msg |-> msg, args |-> args]

\* faulty variant: the destinations are scanned before the sources
FirstDanglingDestinationsFirst(srcs, dsts, bound) ==
    LET chain == dsts \o srcs
        bad == {i \in 1..Len(chain) : chain[i] >= bound}
    IN  IF bad = {} THEN <<>>
        ELSE <<chain[CHOOSE i \in bad : \A j \in bad : i <= j]>>

\* first node of sources.iter().chain(destinations.iter()) that is >= bound,
\* as a one-element sequence, or <<>> when there is none
FirstDangling(srcs, dsts, bound) ==
    LET chain == srcs \o dsts
        bad == {i \in 1..Len(chain) : chain[i] >= bound}
    IN  IF bad = {} THEN <<>>
        ELSE <<chain[CHOOSE i \in bad : \A j \in bad : i <= j]>>

\* the check of one weight: Ok or the error of the first test it fails
CheckWeight(w) ==
    IF WeightIsZero(w) THEN Err("One of the provided weights '{}' is either 0 or within float error to zero.", <<FmtWeight(w)>>)
    ELSE IF WeightIsNegative(w) THEN Err("One of the provided weights '{}' is negative.", <<FmtWeight(w)>>)
    ELSE IF WeightIsNaN(w) THEN Err("One of the provided weights is NaN.", <<>>)
    ELSE IF WeightIsInfinite(w) THEN Err("One of the provided weights is infinite.", <<>>)
    ELSE Ok

\* faulty variant: the error of the last failing weight
CheckWeightsFromLast(w, i) ==
    LET bad == {k \in i..Len(w) : ~CheckWeight(w[k]).ok}
    IN  IF bad = {} THEN Ok
        ELSE CheckWeight(w[CHOOSE k \in bad : \A l \in bad : k >= l])

\* for weight in w.iter() { ... }: the error of the first failing weight
RECURSIVE CheckWeights(_, _)
CheckWeights(w, i) ==
    IF i > Len(w) THEN Ok
    ELSE IF ~CheckWeight(w[i]).ok THEN CheckWeight(w[i])
    ELSE CheckWeights(w, i + 1)

\* faulty variant: validate with the node types length checked before the node
\* mapping lengths
validate_node_types_first(srcs, dsts, nm_len, nrm_len, nt, et, w) ==
    IF nt.some /\ Len(nt.v) # nrm_len
    THEN Err("The number of given nodes ({}) does not match the number of node_types ({}).", <<FmtUsize(Len(nt.v)), FmtUsize(nrm_len)>>)
    ELSE IF nm_len # nrm_len
    THEN Err("The size of the node_mapping ({}) does not match the size of the nodes_reverse_mapping ({}).", <<FmtUsize(nm_len), FmtUsize(nrm_len)>>)
    ELSE IF nt.some /\ FirstDangling(srcs, dsts, Len(nt.v)) # <<>>
    THEN Err("A node provided with the edges ('{}') does not exists within given nodes.",
             <<FmtUsize(FirstDangling(srcs, dsts, Len(nt.v))[1])>>)
    ELSE IF w.some /\ Len(w.v) # Len(srcs)
    THEN Err("Length of given weights ({}) does not match length of given edges ({}).", <<FmtUsize(Len(w.v)), FmtUsize(Len(srcs))>>)
    ELSE IF w.some /\ ~CheckWeights(w.v, 1).ok
    THEN CheckWeights(w.v, 1)
    ELSE IF et.some /\ Len(et.v) # Len(srcs)
    THEN Err("The len of edge types ({}) is different than the len of given edges ({}).  ", <<FmtUsize(Len(et.v)), FmtUsize(Len(srcs))>>)
    ELSE Ok

\* faulty variant: validate with the edge types checked before the weights
validate_edge_types_first(srcs, dsts, nm_len, nrm_len, nt, et, w) ==
    IF nm_len # nrm_len
    THEN Err("The size of the node_mapping ({}) does not match the size of the nodes_reverse_mapping ({}).", <<FmtUsize(nm_len), FmtUsize(nrm_len)>>)
    ELSE IF nt.some /\ Len(nt.v) # nrm_len
    THEN Err("The number of given nodes ({}) does not match the number of node_types ({}).", <<FmtUsize(Len(nt.v)), FmtUsize(nrm_len)>>)
    ELSE IF nt.some /\ FirstDangling(srcs, dsts, Len(nt.v)) # <<>>
    THEN Err("A node provided with the edges ('{}') does not exists within given nodes.",
             <<FmtUsize(FirstDangling(srcs, dsts, Len(nt.v))[1])>>)
    ELSE IF et.some /\ Len(et.v) # Len(srcs)
    THEN Err("The len of edge types ({}) is different than the len of given edges ({}).  ", <<FmtUsize(Len(et.v)), FmtUsize(Len(srcs))>>)
    ELSE IF w.some /\ Len(w.v) # Len(srcs)
    THEN Err("Length of given weights ({}) does not match length of given edges ({}).", <<FmtUsize(Len(w.v)), FmtUsize(Len(srcs))>>)
    ELSE IF w.some /\ ~CheckWeights(w.v, 1).ok
    THEN CheckWeights(w.v, 1)
    ELSE Ok

\* faulty variant: validate without the check that every node of the edges exists
validate_without_existence_check(srcs, dsts, nm_len, nrm_len, nt, et, w) ==
    IF nm_len # nrm_len
    THEN Err("The size of the node_mapping ({}) does not match the size of the nodes_reverse_mapping ({}).", <<FmtUsize(nm_len), FmtUsize(nrm_len)>>)
    ELSE IF nt.some /\ Len(nt.v) # nrm_len
    THEN Err("The number of given nodes ({}) does not match the number of node_types ({}).", <<FmtUsize(Len(nt.v)), FmtUsize(nrm_len)>>)
    ELSE IF w.some /\ Len(w.v) # Len(srcs)
    THEN Err("Length of given weights ({}) does not match length of given edges ({}).", <<FmtUsize(Len(w.v)), FmtUsize(Len(srcs))>>)
    ELSE IF w.some /\ ~CheckWeights(w.v, 1).ok
    THEN CheckWeights(w.v, 1)
    ELSE IF et.some /\ Len(et.v) # Len(srcs)
    THEN Err("The len of edge types ({}) is different than the len of given edges ({}).  ", <<FmtUsize(Len(et.v)), FmtUsize(Len(srcs))>>)
    ELSE Ok

validate(srcs, dsts, nm_len, nrm_len, nt, et, w) ==
    IF nm_len # nrm_len
    THEN Err("The size of the node_mapping ({}) does not match the size of the nodes_reverse_mapping ({}).", <<FmtUsize(nm_len), FmtUsize(nrm_len)>>)
    ELSE IF nt.some /\ Len(nt.v) # nrm_len
    THEN Err("The number of given nodes ({}) does not match the number of node_types ({}).", <<FmtUsize(Len(nt.v)), FmtUsize(nrm_len)>>)
    ELSE IF nt.some /\ FirstDangling(srcs, dsts, Len(nt.v)) # <<>>
    THEN Err("A node provided with the edges ('{}') does not exists within given nodes.",
             <<FmtUsize(FirstDangling(srcs, dsts, Len(nt.v))[1])>>)
    ELSE IF w.some /\ Len(w.v) # Len(srcs)
    THEN Err("Length of given weights ({}) does not match length of given edges ({}).", <<FmtUsize(Len(w.v)), FmtUsize(Len(srcs))>>)
    ELSE IF w.some /\ ~CheckWeights(w.v, 1).ok
    THEN CheckWeights(w.v, 1)
    ELSE IF et.some /\ Len(et.v) # Len(srcs)
    THEN Err("The len of edge types ({}) is different than the len of given edges ({}).  ", <<FmtUsize(Len(et.v)), FmtUsize(Len(srcs))>>)
    ELSE Ok

----------------------------------------------------------------------------
(* Graph::new_directed *)

\* validate_input_data.unwrap_or_else(|| true)
UnwrapOrTrue(flag) == IF flag.some THEN flag.v ELSE TRUE

\* the arguments of one validate() call
ValidateArgs(srcs, dsts, nm_len, nrm_len, nt, et, w) ==
    [sources |-> srcs, destinations |-> dsts, nodes_mapping_len |-> nm_len,
     nodes_reverse_mapping_len |-> nrm_len, node_types |-> nt,
     edge_types |-> et, weights |-> w]

\* faulty variant: an insert that keeps the entry already stored under the key
InsertIfAbsent(map, key, value) ==
    [x \in (DOMAIN map) \cup {key} |->
        IF x \in DOMAIN map THEN map[x] ELSE value]

\* HashMap insert: a later entry with the same key overwrites the earlier one
Insert(map, key, value) ==
    [x \in (DOMAIN map) \cup {key} |-> IF x = key THEN value ELSE map[x]]

\* HashMap::from_iter(zip(sources, destinations).enumerate()
\*                        .map(|(i, (src, dst))| ((src, dst), i)))
\* taken entry by entry; zip stops at the shorter array
RECURSIVE FromIter(_, _, _, _)
FromIter(srcs, dsts, i, map) ==
    IF i >= Min(Len(srcs), Len(dsts)) THEN map
    ELSE FromIter(srcs, dsts, i + 1,
                  Insert(map, <<At(srcs, i), At(dsts, i)>>, i))

unique_edges(srcs, dsts) == FromIter(srcs, dsts, 0, [x \in {} |-> 0])

\* every order of the index set S, as a sequence
RECURSIVE Orders(_)
Orders(S) ==
    IF S = {} THEN {<<>>}
    ELSE UNION {{<<i>> \o rest : rest \in Orders(S \ {i})} : i \in S}

\* every order par_sort_unstable_by_key may leave the pairs (i, sources[i])
\* with a key >= from in: keys ascending, the pairs of one key in any order;
\* as the sequence of the i's (the `indices` of the code)
RECURSIVE SortedOrders(_, _)
SortedOrders(srcs, from) ==
    LET later == {srcs[i] : i \in {j \in 1..Len(srcs) : srcs[j] >= from}}
    IN  IF later = {} THEN {<<>>}
        ELSE LET key == CHOOSE k \in later : \A l \in later : k <= l
                 same == {i \in 0..(Len(srcs) - 1) : At(srcs, i) = key}
                 tails == SortedOrders(srcs, key + 1)
             IN  {head \o tail : head \in Orders(same), tail \in tails}

\* faulty variant: the pairs are left in input order
par_sort_skipped(srcs) == {[k \in 1..Len(srcs) |-> k - 1]}

par_sort_unstable_by_key(srcs) == SortedOrders(srcs, 0)

\* indices.par_iter().map(|&&x| v[x]).collect()
Gather(indices, v) == [k \in 1..Len(indices) |-> At(v, indices[k])]

\* v[x] is out of bounds for some x of indices: the indexing panics
GatherPanics(indices, v) == \E k \in 1..Len(indices) : indices[k] >= Len(v)

\* Graph::compute_outbounds(nodes_number, &sorted_sources): the offset table,
\* one cumulative count per node id, by a running sum over the node ids
RECURSIVE CumulativeCount(_, _)
CumulativeCount(sorted, node) ==
    IF node < 0 THEN 0
    ELSE CumulativeCount(sorted, node - 1)
         + Cardinality({p \in 1..Len(sorted) : sorted[p] = node})

compute_outbounds(nodes_number, sorted) ==
    [i \in 1..nodes_number |-> CumulativeCount(sorted, i - 1)]

\* faulty variant: the node count is taken from nodes_mapping
NodesNumberOfMapping(nm_len, nrm_len) == nm_len

\* let nodes_number = nodes_reverse_mapping.len()
NodesNumber(nm_len, nrm_len) == nrm_len

\* faulty variant: the sources are stored as given
sorted_sources_as_given(srcs, indices) == srcs

sorted_sources(srcs, indices) == Gather(indices, srcs)

\* faulty variant: the destinations are stored as given
sorted_destinations_as_given(dsts, indices) == dsts

sorted_destinations(dsts, indices) == Gather(indices, dsts)

\* faulty variant: the weights are stored as given
sorted_weights_as_given(w, indices) == w

\* weights.map(|w| indices.par_iter().map(|&&x| w[x]).collect())
sorted_weights(w, indices) ==
    IF w.some THEN Some(Gather(indices, w.v)) ELSE None

\* edge_types.map(|et| indices.par_iter().map(|&&x| et[x]).collect())
sorted_edge_types(et, indices) ==
    IF et.some THEN Some(Gather(indices, et.v)) ELSE None

ErrResult(e) == [kind |-> "Err", error |-> e]

PanicResult(where) == [kind |-> "Panic", at |-> where]

GraphResult(g) == [kind |-> "Graph", graph |-> g]

\* the body of new_directed after validation, with `indices` the order the
\* unstable sort produced
BuildGraph(srcs, dsts, nm_len, nrm_len, nt, et, w, indices) ==
    IF GatherPanics(indices, dsts) THEN PanicResult("destinations[x]")
    ELSE IF w.some /\ GatherPanics(indices, w.v) THEN PanicResult("w[x]")
    ELSE IF et.some /\ GatherPanics(indices, et.v) THEN PanicResult("et[x]")
    ELSE GraphResult(
        [nodes_mapping_len |-> nm_len,
         nodes_reverse_mapping_len |-> nrm_len,
         unique_edges |-> unique_edges(srcs, dsts),
         node_types |-> nt,
         outbounds |-> compute_outbounds(NodesNumber(nm_len, nrm_len),
                                         sorted_sources(srcs, indices)),
         sources |-> sorted_sources(srcs, indices),
         destinations |-> sorted_destinations(dsts, indices),
         weights |-> sorted_weights(w, indices),
         edge_types |-> sorted_edge_types(et, indices)])

\* whether new_directed returns the validator's error
Rejects(srcs, dsts, nm_len, nrm_len, nt, et, w, flag) ==
    /\ UnwrapOrTrue(flag)
    /\ ~validate(srcs, dsts, nm_len, nrm_len, nt, et, w).ok

\* Graph::new_directed for one order `sorted` that its unstable sort may
\* produce: the outcome, the validate() calls made, the order used (none
\* when the validator's error is returned before the sort)
new_directed_sorted(srcs, dsts, nm_len, nrm_len, nt, et, w, flag, sorted) ==
    LET calls == IF UnwrapOrTrue(flag)
                 THEN <<ValidateArgs(srcs, dsts, nm_len, nrm_len, nt, et, w)>>
                 ELSE <<>>
    IN  IF Rejects(srcs, dsts, nm_len, nrm_len, nt, et, w, flag)
        THEN [result |-> ErrResult(validate(srcs, dsts, nm_len, nrm_len,
                                            nt, et, w)),
              validated |-> calls,
              order |-> <<>>]
        ELSE [result |-> BuildGraph(srcs, dsts, nm_len, nrm_len, nt, et, w,
                                    sorted),
              validated |-> calls,
              order |-> sorted]

\* Graph::new_directed: its possible outcomes, one per order the unstable
\* sort may produce
new_directed(srcs, dsts, nm_len, nrm_len, nt, et, w, flag) ==
    IF Rejects(srcs, dsts, nm_len, nrm_len, nt, et, w, flag)
    THEN {new_directed_sorted(srcs, dsts, nm_len, nrm_len, nt, et, w, flag,
                              <<>>)}
    ELSE {new_directed_sorted(srcs, dsts, nm_len, nrm_len, nt, et, w, flag,
                              sorted) :
             sorted \in par_sort_unstable_by_key(srcs)}

----------------------------------------------------------------------------
(* Graph::new_undirected *)

\* faulty variant: no edge is recognised as a self-loop
loops_mask_all_false(srcs, dsts) ==
    [i \in 1..Min(Len(srcs), Len(dsts)) |-> FALSE]

\* sources.par_iter().zip(destinations.par_iter()).map(|(a, b)| a == b)
loops_mask(srcs, dsts) ==
    [i \in 1..Min(Len(srcs), Len(dsts)) |-> srcs[i] = dsts[i]]

\* v.par_iter().zip(loops_mask.par_iter()).filter(|&(_, &mask)| !mask)
\*  .map(|(value, _)| *value).collect(): zip stops at the shorter of the two
RECURSIVE FilterNotMask(_, _, _)
FilterNotMask(v, mask, i) ==
    IF i > Min(Len(v), Len(mask)) THEN <<>>
    ELSE (IF mask[i] THEN <<>> ELSE <<v[i]>>) \o FilterNotMask(v, mask, i + 1)

full_sources(srcs, dsts) ==
    srcs \o FilterNotMask(dsts, loops_mask(srcs, dsts), 1)

full_destinations(srcs, dsts) ==
    dsts \o FilterNotMask(srcs, loops_mask(srcs, dsts), 1)

full_edge_types(srcs, dsts, et) ==
    IF et.some
    THEN Some(et.v \o FilterNotMask(et.v, loops_mask(srcs, dsts), 1))
    ELSE None

\* faulty variant: the weights of the mirrored edges are not appended
full_weights_not_extended(srcs, dsts, w) == w

full_weights(srcs, dsts, w) ==
    IF w.some
    THEN Some(w.v \o FilterNotMask(w.v, loops_mask(srcs, dsts), 1))
    ELSE None

\* faulty variant: new_directed is asked to validate again
DelegatedValidateFlagTrue == Some(TRUE)

\* the validate_input_data new_undirected hands to new_directed
DelegatedValidateFlag == Some(FALSE)

\* Graph::new_undirected: its possible outcomes, each with the validate()
\* calls made
new_undirected(srcs, dsts, nm_len, nrm_len, nt, et, w, flag) ==
    LET checked == validate(srcs, dsts, nm_len, nrm_len, nt, et, w)
        calls == IF UnwrapOrTrue(flag)
                 THEN <<ValidateArgs(srcs, dsts, nm_len, nrm_len, nt, et, w)>>
                 ELSE <<>>
    IN  IF UnwrapOrTrue(flag) /\ ~checked.ok
        THEN {[result |-> ErrResult(checked), validated |-> calls,
               order |-> <<>>]}
        ELSE {[result |-> built.result,
               validated |-> calls \o built.validated,
               order |-> built.order] :
                 built \in new_directed(full_sources(srcs, dsts),
                                        full_destinations(srcs, dsts),
                                        nm_len, nrm_len, nt,
                                        full_edge_types(srcs, dsts, et),
                                        full_weights(srcs, dsts, w),
                                        DelegatedValidateFlag)}

----------------------------------------------------------------------------
(* The state machine: one construction call. *)

\* shapes of the two optional side arrays next to n edges, as <<weights,
\* edge types>>: each absent or of the right length, or one of them alone and
\* of another length; every entry is a value of its own, so that a misplaced
\* entry shows
SideArrays(n) ==
    ({None, Some(TaggedWeights(n))} \X {None, Some(TaggedEdgeTypes(n))})
    \cup {<<Some(TaggedWeights(k)), None>> : k \in Near(n, MaxEdges) \ {n}}
    \cup {<<None, Some(TaggedEdgeTypes(k))>> : k \in Near(n, MaxEdges) \ {n}}

\* any endpoints, destinations as long as sources or one off, any side arrays
InitEdges ==
    /\ sources \in SeqsOfLen(NodeIds, 0..MaxEdges)
    /\ destinations \in SeqsOfLen(NodeIds, Near(Len(sources), MaxEdges))
    /\ \E side \in SideArrays(Len(sources)) :
          /\ weights = side[1]
          /\ edge_types = side[2]

\* Arguments that exercise the layout, validation by default: any edges, as
\* many nodes as there are node ids or one fewer, consistent node mappings,
\* node types or none.
InitLayout ==
    /\ InitEdges
    /\ nodes_reverse_mapping_len \in {MaxNodeId, MaxNodeId + 1}
    /\ nodes_mapping_len = nodes_reverse_mapping_len
    /\ node_types \in {None, Some(NodeTypesOfLen(nodes_reverse_mapping_len))}
    /\ validate_input_data = NoneBool

\* Arguments built without validation: any edges, node mappings that
\* disagree in length.
InitUnvalidated ==
    /\ InitEdges
    /\ nodes_reverse_mapping_len \in {MaxNodeId, MaxNodeId + 1}
    /\ nodes_mapping_len = (nodes_reverse_mapping_len + 1) % (MaxNodeId + 2)
    /\ node_types = None
    /\ validate_input_data = Some(FALSE)

\* Arguments that exercise the validator, validation asked for: plain
\* endpoints, any number of nodes, node mappings and node types that agree in
\* length or not, any weights, edge types of the right length or not.
InitValidation ==
    /\ \E n \in 0..MaxEdges, d \in {0, MaxNodeId} :
          /\ sources = [i \in 1..n |-> 0]
          /\ destinations = [i \in 1..n |-> d]
    /\ nodes_reverse_mapping_len \in {0, MaxNodeId, MaxNodeId + 1}
    /\ nodes_mapping_len \in OneOff(nodes_reverse_mapping_len, MaxNodeId + 1)
    /\ node_types \in {None} \cup
          {Some(NodeTypesOfLen(k)) :
              k \in OneOff(nodes_reverse_mapping_len, MaxNodeId + 1)}
    /\ edge_types \in {None} \cup
          {Some(TaggedEdgeTypes(k)) : k \in OneOff(Len(sources), MaxEdges)}
    /\ weights \in {None} \cup
          {Some(w) : w \in SeqsOfLen(Weights, Near(Len(sources), MaxEdges))}
    /\ validate_input_data = Some(TRUE)

\* Arguments whose node mappings disagree in length, validation asked for:
\* any edges, node types or none.
InitRejectedMapping ==
    /\ InitEdges
    /\ nodes_reverse_mapping_len = MaxNodeId + 1
    /\ nodes_mapping_len = MaxNodeId
    /\ node_types \in {None, Some(NodeTypesOfLen(nodes_reverse_mapping_len))}
    /\ validate_input_data = Some(TRUE)

\* Arguments that declare fewer nodes than the edges name, validation asked
\* for: any endpoints, no side arrays, node types for every declared node.
InitDangling ==
    /\ sources \in SeqsOfLen(NodeIds, 0..MaxEdges)
    /\ destinations \in SeqsOfLen(NodeIds, Near(Len(sources), MaxEdges))
    /\ weights = None
    /\ edge_types = None
    /\ nodes_reverse_mapping_len = MaxNodeId - 1
    /\ nodes_mapping_len = nodes_reverse_mapping_len
    /\ node_types = Some(NodeTypesOfLen(nodes_reverse_mapping_len))
    /\ validate_input_data = Some(TRUE)

\* no parallel pass is being followed
ParIdle ==
    [pass |-> "none", indices |-> <<>>, job |-> <<>>, done |-> <<>>,
     slot |-> <<>>, writes |-> <<>>, joined |-> FALSE, output |-> <<>>]

Init ==
    /\ \/ InitLayout
       \/ InitUnvalidated
       \/ InitValidation
       \/ InitRejectedMapping
       \/ InitDangling
    /\ pc = "ready"
    /\ op = "none"
    /\ result = [kind |-> "None"]
    /\ validated = <<>>
    /\ order = <<>>
    /\ par = ParIdle

Inputs == <<sources, destinations, nodes_mapping_len, nodes_reverse_mapping_len,
            node_types, edge_types, weights, validate_input_data>>

\* a caller runs Graph::new_directed on the arguments
CallNewDirected ==
    /\ pc = "ready"
    /\ \E out \in new_directed(sources, destinations, nodes_mapping_len,
                               nodes_reverse_mapping_len, node_types,
                               edge_types, weights, validate_input_data) :
          /\ result' = out.result
          /\ validated' = out.validated
          /\ order' = out.order
    /\ op' = "new_directed"
    /\ pc' = "done"
    /\ UNCHANGED <<Inputs, par>>

\* a caller runs Graph::new_undirected on the arguments
CallNewUndirected ==
    /\ pc = "ready"
    /\ \E out \in new_undirected(sources, destinations, nodes_mapping_len,
                                 nodes_reverse_mapping_len, node_types,
                                 edge_types, weights, validate_input_data) :
          /\ result' = out.result
          /\ validated' = out.validated
          /\ order' = out.order
    /\ op' = "new_undirected"
    /\ pc' = "done"
    /\ UNCHANGED <<Inputs, par>>

Next == CallNewDirected \/ CallNewUndirected

Spec == Init /\ [][Next]_vars

----------------------------------------------------------------------------
(* Properties of the returned Graph. *)

\* the call returned a Graph
Returned == pc = "done" /\ result.kind = "Graph"

\* nodeCount and edgeCount of the returned Graph
NodeCount == result.graph.nodes_reverse_mapping_len

EdgeCount == Len(result.graph.sources)

\* offset[i] of the returned Graph, with offset[-1] = 0
OffsetAt(i) == IF i < 0 THEN 0 ELSE At(result.graph.outbounds, i)

\* what validate answers on the caller's arguments
InputCheck ==
    validate(sources, destinations, nodes_mapping_len,
             nodes_reverse_mapping_len, node_types, edge_types, weights)

\* the input sources are not in ascending order
InputUnsorted ==
    \E p \in 1..Len(sources), q \in 1..Len(sources) :
        p < q /\ sources[p] > sources[q]

\* C1: in every returned Graph the sources array is ascending: for all edge
\* positions p < q, sources[p] <= sources[q].
C1_SourcesAscending ==
    Returned =>
        \A p \in 1..EdgeCount, q \in 1..EdgeCount :
            p < q => result.graph.sources[p] <= result.graph.sources[q]

\* C1 witness: new_directed returned a Graph for sources given out of order.
C1_Witness ==
    /\ Returned
    /\ op = "new_directed"
    /\ InputUnsorted

\* C2 as stated: for every input the validator accepts, with or without node
\* types, the returned Graph has offset[nodeCount-1] = edgeCount (read for
\* the Graphs that have a last node, nodeCount >= 1).
C2_AsStated ==
    (Returned /\ InputCheck.ok /\ NodeCount >= 1)
    => At(result.graph.outbounds, NodeCount - 1) = EdgeCount

\* C2 amended: for every input the validator accepts and whose Graph holds
\* only source ids below nodeCount (as it does whenever node types are
\* given), offset[nodeCount-1] = edgeCount, with offset[-1] = 0.
C2_LastOffsetIsEdgeCount ==
    (/\ Returned
     /\ InputCheck.ok
     /\ \/ node_types.some
        \/ \A p \in 1..EdgeCount : result.graph.sources[p] < NodeCount)
    => OffsetAt(NodeCount - 1) = EdgeCount

\* C2 witness: a validated input with node types and edges up to the last
\* node gave a Graph.
C2_Witness ==
    /\ Returned
    /\ UnwrapOrTrue(validate_input_data)
    /\ node_types.some
    /\ EdgeCount >= 2
    /\ \E p \in 1..EdgeCount : result.graph.sources[p] = NodeCount - 1

\* C3: in every returned Graph, for every node id i in [0, nodeCount), every
\* edge position pos in [offset[i-1], offset[i]) has sources[pos] = i.
C3_OffsetsDelimitSources ==
    Returned =>
        \A i \in 0..(NodeCount - 1) :
            \A pos \in OffsetAt(i - 1)..(OffsetAt(i) - 1) :
                /\ pos < EdgeCount
                /\ At(result.graph.sources, pos) = i

\* C3 witness: a Graph built from unsorted sources in which some node has a
\* non-empty range that does not start at position 0.
C3_Witness ==
    /\ Returned
    /\ InputUnsorted
    /\ \E i \in 1..(NodeCount - 1) :
          OffsetAt(i - 1) > 0 /\ OffsetAt(i) > OffsetAt(i - 1)

\* C4: the offset table has length nodeCount = len(nodeIdToName), is
\* non-decreasing, and offset[i] is the number of edges of the sorted
\* sources array whose source id is <= i.
C4_OffsetsAreCumulativeCounts ==
    Returned =>
        /\ Len(result.graph.outbounds) = nodes_reverse_mapping_len
        /\ NodeCount = nodes_reverse_mapping_len
        /\ \A i \in 0..(NodeCount - 1) :
              /\ OffsetAt(i - 1) <= OffsetAt(i)
              /\ OffsetAt(i) =
                    Cardinality({p \in 1..EdgeCount :
                                    result.graph.sources[p] <= i})

\* C4 witness: a Graph with at least two nodes, one of them without outgoing
\* edges, and an offset table that is not constant.
C4_Witness ==
    /\ Returned
    /\ NodeCount >= 2
    /\ \E i \in 1..(NodeCount - 1) : OffsetAt(i) = OffsetAt(i - 1)
    /\ \E i \in 0..(NodeCount - 1) : OffsetAt(i) > OffsetAt(i - 1)

----------------------------------------------------------------------------
(* Rows of the input and of the returned Graph. *)

\* the entry of an optional side array at position p, or a marker for None
WeightAt(w, p) == IF w.some THEN w.v[p] ELSE "none"

EdgeTypeAt(et, p) == IF et.some THEN et.v[p] ELSE -1

\* the rows (source, destination, weight, edgeType) of co-indexed arrays,
\* one per position of srcs
Rows(srcs, dsts, w, et) ==
    [p \in 1..Len(srcs) |-> <<srcs[p], dsts[p], WeightAt(w, p), EdgeTypeAt(et, p)>>]

\* a sequence as a multiset: how often each of its entries occurs
BagOf(rows) ==
    [r \in {rows[p] : p \in DOMAIN rows} |->
        Cardinality({p \in DOMAIN rows : rows[p] = r})]

InputRows == Rows(sources, destinations, weights, edge_types)

GraphRows ==
    Rows(result.graph.sources, result.graph.destinations,
         result.graph.weights, result.graph.edge_types)

\* the row a symmetrization adds for the row r
Mirrored(r) == <<r[2], r[1], r[3], r[4]>>

\* the positions of a row sequence that hold no self-loop
NonLoops(rows) == {p \in DOMAIN rows : rows[p][1] # rows[p][2]}

\* the bag with every row of `rows` and the mirror of every non-self-loop row
SymmetrizedBag(rows) ==
    LET all == {rows[p] : p \in DOMAIN rows}
                  \cup {Mirrored(rows[p]) : p \in NonLoops(rows)}
    IN  [r \in all |->
            Cardinality({p \in DOMAIN rows : rows[p] = r})
            + Cardinality({p \in NonLoops(rows) : Mirrored(rows[p]) = r})]

\* the (source, destination) pairs of the input, by 0-based input index
InputPairAt(i) == <<At(sources, i), At(destinations, i)>>

InputPairIndices == 0..(Min(Len(sources), Len(destinations)) - 1)

\* C5: new_directed returns the input rows (source, destination, weight,
\* edgeType) reordered as a whole: the multiset of the Graph's rows equals the
\* multiset of the input rows, and weights / edge types are present in the
\* Graph exactly when they were given.
C5_RowsArePermuted ==
    (Returned /\ op = "new_directed") =>
        /\ result.graph.weights.some = weights.some
        /\ result.graph.edge_types.some = edge_types.some
        /\ Len(result.graph.destinations) = EdgeCount
        /\ weights.some => Len(result.graph.weights.v) = EdgeCount
        /\ edge_types.some => Len(result.graph.edge_types.v) = EdgeCount
        /\ BagOf(GraphRows) = BagOf(InputRows)

\* C5 witness: new_directed returned a Graph for unsorted sources that came
\* with distinct destinations, weights and edge types.
C5_Witness ==
    /\ Returned
    /\ op = "new_directed"
    /\ InputUnsorted
    /\ weights.some
    /\ edge_types.some
    /\ destinations[1] # destinations[2]

\* C6: the dedup index of new_directed has as keys exactly the distinct
\* (source, destination) pairs of the input, each mapped to the largest input
\* index holding that pair, and every input row is still in the Graph.
C6_DedupIndexLastWins ==
    (Returned /\ op = "new_directed") =>
        /\ DOMAIN result.graph.unique_edges =
              {InputPairAt(i) : i \in InputPairIndices}
        /\ \A i \in InputPairIndices :
              /\ result.graph.unique_edges[InputPairAt(i)] >= i
              /\ result.graph.unique_edges[InputPairAt(i)] \in InputPairIndices
              /\ InputPairAt(result.graph.unique_edges[InputPairAt(i)])
                    = InputPairAt(i)
        /\ EdgeCount = Len(sources)

\* C6 witness: new_directed returned a Graph for an input that repeats a
\* pair, and the index holds the later position.
C6_Witness ==
    /\ Returned
    /\ op = "new_directed"
    /\ \E i \in InputPairIndices, j \in InputPairIndices :
          /\ i < j
          /\ InputPairAt(i) = InputPairAt(j)
          /\ result.graph.unique_edges[InputPairAt(i)] = j
          /\ EdgeCount >= 2

\* the caller's arguments passed validation and name only declared nodes
ValidatedInRange ==
    /\ UnwrapOrTrue(validate_input_data)
    /\ InputCheck.ok
    /\ \A i \in 1..Len(sources) : sources[i] < nodes_reverse_mapping_len
    /\ \A i \in 1..Len(destinations) :
          destinations[i] < nodes_reverse_mapping_len

\* C7 as stated: in every returned Graph each key (s, d) of the dedup index
\* has as value an edge position p of the sorted arrays: 0 <= p < edgeCount,
\* sources[p] = s and destinations[p] = d (read for the Graphs of validated
\* inputs that name only declared nodes).
C7_AsStated ==
    (Returned /\ ValidatedInRange) =>
        \A key \in DOMAIN result.graph.unique_edges :
            LET p == result.graph.unique_edges[key]
            IN  /\ 0 <= p
                /\ p < EdgeCount
                /\ At(result.graph.sources, p) = key[1]
                /\ At(result.graph.destinations, p) = key[2]

\* C8 as stated: for every input new_undirected accepts, the multiset of
\* rows of the Graph is the input rows plus one mirrored row (d, s, same
\* weight, same type) per input row with s # d, so that
\* edgeCount = 2 * len(sources) - (number of self-loop rows) (read for the
\* validated inputs that name only declared nodes).
C8_AsStated ==
    (Returned /\ op = "new_undirected" /\ ValidatedInRange) =>
        /\ BagOf(GraphRows) = SymmetrizedBag(InputRows)
        /\ EdgeCount = Len(sources) + Cardinality(NonLoops(InputRows))

\* how many edge positions of the Graph hold the self-loop (s, s)
GraphLoopCount(s) ==
    Cardinality({p \in 1..EdgeCount :
                    result.graph.sources[p] = s
                    /\ result.graph.destinations[p] = s})

\* how many input rows are the self-loop (s, s)
InputLoopCount(s) ==
    Cardinality({i \in InputPairIndices : InputPairAt(i) = <<s, s>>})

C10_ErrorIffValidationRejects ==
    pc = "done" =>
        /\ result.kind = "Err"
              <=> (UnwrapOrTrue(validate_input_data) /\ ~InputCheck.ok)
        /\ result.kind = "Err" => result.error = InputCheck
        /\ Len(validated) <= 1
        /\ Len(validated) = 1 <=> UnwrapOrTrue(validate_input_data)
        /\ \A k \in 1..Len(validated) :
              validated[k] =
                  ValidateArgs(sources, destinations, nodes_mapping_len,
                               nodes_reverse_mapping_len, node_types,
                               edge_types, weights)

\* C10 witness: new_undirected, asked to validate, was handed a rejected
\* input and returned validate's error after one validate call.
C10_Witness ==
    /\ pc = "done"
    /\ op = "new_undirected"
    /\ validate_input_data = Some(TRUE)
    /\ result.kind = "Err"
    /\ Len(validated) = 1

----------------------------------------------------------------------------
(* Properties of the validator's answer. *)

\* the error kind of the spec's taxonomy that a message of validate stands for
ErrorKind(e) ==
    CASE e.msg = "The size of the node_mapping ({}) does not match the size of the nodes_reverse_mapping ({})."
           -> "LengthMismatch(node mapping)"
      [] e.msg = "The number of given nodes ({}) does not match the number of node_types ({})."
           -> "LengthMismatch(node types)"
      [] e.msg = "A node provided with the edges ('{}') does not exists within given nodes."
           -> "DanglingNodeReference"
      [] e.msg = "Length of given weights ({}) does not match length of given edges ({})."
           -> "LengthMismatch(weights)"
      [] e.msg = "One of the provided weights '{}' is either 0 or within float error to zero."
           -> "ZeroWeight"
      [] e.msg = "One of the provided weights '{}' is negative."
           -> "NegativeWeight"
      [] e.msg = "One of the provided weights is NaN."
           -> "NaNWeight"
      [] e.msg = "One of the provided weights is infinite."
           -> "InfiniteWeight"
      [] e.msg = "The len of edge types ({}) is different than the len of given edges ({}).  "
           -> "LengthMismatch(edge types)"
      [] OTHER -> "none"

WeightKinds == {"ZeroWeight", "NegativeWeight", "NaNWeight", "InfiniteWeight"}

\* the call ran with validation on (flag true or omitted) and is over
ValidatedCall == pc = "done" /\ UnwrapOrTrue(validate_input_data)

\* what each check of the validator forbids, read off the caller's arguments
MappingLengthsDiffer == nodes_mapping_len # nodes_reverse_mapping_len

NodeTypesLengthDiffers ==
    node_types.some /\ Len(node_types.v) # nodes_reverse_mapping_len

\* the ids of sources, then of destinations, that are >= len(nodeTypes)
DanglingIds ==
    LET chain == sources \o destinations
    IN  IF node_types.some
        THEN SelectSeq(chain, LAMBDA id : id >= Len(node_types.v))
        ELSE <<>>

WeightsLengthDiffers == weights.some /\ Len(weights.v) # Len(sources)

\* the weights outside the domain: zero, negative, NaN or infinite
OffendingWeights ==
    IF weights.some
    THEN SelectSeq(weights.v,
                   LAMBDA x : \/ WeightIsZero(x) \/ WeightIsNegative(x)
                              \/ WeightIsNaN(x) \/ WeightIsInfinite(x))
    ELSE <<>>

EdgeTypesLengthDiffers == edge_types.some /\ Len(edge_types.v) # Len(sources)

\* the kind a single offending weight is rejected with: the first test of
\* zero, negative, NaN, infinite that it fails
WeightKind(x) ==
    IF WeightIsZero(x) THEN "ZeroWeight"
    ELSE IF WeightIsNegative(x) THEN "NegativeWeight"
    ELSE IF WeightIsNaN(x) THEN "NaNWeight"
    ELSE "InfiniteWeight"

\* C11 as stated: for every input whose node mappings differ in length,
\* new_directed fails with LengthMismatch("node mapping").
C11_AsStated ==
    (pc = "done" /\ op = "new_directed" /\ MappingLengthsDiffer) =>
        /\ result.kind = "Err"
        /\ ErrorKind(result.error) = "LengthMismatch(node mapping)"

\* C11 amended: for every input whose node mappings differ in length,
\* new_directed with validation on (flag true or omitted) fails with
\* LengthMismatch("node mapping") carrying the two lengths, whatever the
\* edges, node types, weights and edge types are, after a single validate
\* call and without reaching the code that indexes the edge arrays.
C11_MappingMismatchComesFirst ==
    (ValidatedCall /\ op = "new_directed" /\ MappingLengthsDiffer) =>
        /\ result.kind = "Err"
        /\ ErrorKind(result.error) = "LengthMismatch(node mapping)"
        /\ result.error.args = <<FmtUsize(nodes_mapping_len),
                                 FmtUsize(nodes_reverse_mapping_len)>>
        /\ Len(validated) = 1

\* C11 witness: new_directed rejected mismatching node mappings although the
\* node types, the weights and the edge types were wrong as well.
C11_Witness ==
    /\ ValidatedCall
    /\ op = "new_directed"
    /\ MappingLengthsDiffer
    /\ NodeTypesLengthDiffers
    /\ Len(OffendingWeights) >= 1
    /\ EdgeTypesLengthDiffers
    /\ result.kind = "Err"

\* C12: the validator answers with the error of the earliest violated check
\* in the order node mapping lengths, node types length, dangling node
\* reference, weights length, weight domain, edge types length, and accepts
\* when no check is violated.
C12_EarliestViolatedCheckWins ==
    ValidatedCall =>
        LET checks == <<
                <<MappingLengthsDiffer, {"LengthMismatch(node mapping)"}>>,
                <<NodeTypesLengthDiffers, {"LengthMismatch(node types)"}>>,
                <<Len(DanglingIds) >= 1, {"DanglingNodeReference"}>>,
                <<WeightsLengthDiffers, {"LengthMismatch(weights)"}>>,
                <<Len(OffendingWeights) >= 1, WeightKinds>>,
                <<EdgeTypesLengthDiffers, {"LengthMismatch(edge types)"}>> >>
            violated == {k \in 1..Len(checks) : checks[k][1]}
        IN  IF violated = {}
            THEN result.kind # "Err"
            ELSE /\ result.kind = "Err"
                 /\ ErrorKind(result.error)
                       \in checks[CHOOSE k \in violated :
                                     \A l \in violated : k <= l][2]

\* C12 witness: an input with an offending weight and edge types of the wrong
\* length was rejected with the weight's error.
C12_Witness ==
    /\ ValidatedCall
    /\ Len(OffendingWeights) >= 1
    /\ EdgeTypesLengthDiffers
    /\ result.kind = "Err"
    /\ ErrorKind(result.error) \in WeightKinds

C14_ExistenceCheckNeedsNodeTypes ==
    (ValidatedCall /\ ~MappingLengthsDiffer /\ ~NodeTypesLengthDiffers) =>
        /\ node_types.some =>
              /\ (/\ result.kind = "Err"
                  /\ ErrorKind(result.error) = "DanglingNodeReference")
                    <=> Len(DanglingIds) >= 1
              /\ Len(DanglingIds) >= 1 =>
                    result.error.args = <<FmtUsize(DanglingIds[1])>>
        /\ ~node_types.some =>
              /\ result.kind = "Err" =>
                    ErrorKind(result.error) # "DanglingNodeReference"
              /\ InputCheck =
                    validate([i \in 1..Len(sources) |-> 0],
                             [i \in 1..Len(destinations) |-> 0],
                             nodes_mapping_len, nodes_reverse_mapping_len,
                             node_types, edge_types, weights)

\* C14 witness: with node types given, an input whose destinations hold an
\* undeclared id before its sources hold a different one was rejected with
\* the id found in the sources.
C14_Witness ==
    /\ ValidatedCall
    /\ node_types.some
    /\ Len(DanglingIds) >= 2
    /\ Len(sources) >= 1
    /\ Len(destinations) >= 1
    /\ sources[Len(sources)] >= Len(node_types.v)
    /\ destinations[1] >= Len(node_types.v)
    /\ destinations[1] # DanglingIds[1]
    /\ result.kind = "Err"
    /\ result.error.args = <<FmtUsize(DanglingIds[1])>>

\* C14 witness of the skipped check: without node types, an input naming an
\* id >= nodeCount passed validation and gave a Graph.
C14_SkippedWitness ==
    /\ ValidatedCall
    /\ ~node_types.some
    /\ \E i \in 1..Len(sources) : sources[i] >= nodes_reverse_mapping_len
    /\ result.kind = "Graph"

\* C15 as stated: every call of new_directed or new_undirected, with either
\* value of the validate flag, ends with a Graph or with an error value; none
\* ends in a panic.
C15_AsStated ==
    pc = "done" => result.kind \in {"Graph", "Err"}

\* the values an error of validate has to carry for the caller's arguments:
\* the two lengths in the order its message names them, the first undeclared
\* id, or the first offending weight
ExpectedArgs(e) ==
    CASE ErrorKind(e) = "LengthMismatch(node mapping)"
           -> <<FmtUsize(nodes_mapping_len), FmtUsize(nodes_reverse_mapping_len)>>
      [] ErrorKind(e) = "LengthMismatch(node types)"
           -> <<FmtUsize(nodes_reverse_mapping_len), FmtUsize(Len(node_types.v))>>
      [] ErrorKind(e) = "DanglingNodeReference"
           -> <<FmtUsize(DanglingIds[1])>>
      [] ErrorKind(e) = "LengthMismatch(weights)"
           -> <<FmtUsize(Len(weights.v)), FmtUsize(Len(sources))>>
      [] ErrorKind(e) \in WeightKinds
           -> <<FmtWeight(OffendingWeights[1])>>
      [] ErrorKind(e) = "LengthMismatch(edge types)"
           -> <<FmtUsize(Len(edge_types.v)), FmtUsize(Len(sources))>>

\* C16 as stated: every error the validator returns carries the offending
\* counts or value: a length mismatch the two lengths, each in the place of
\* the array its message names, a dangling reference the node id, a weight
\* error the offending weight.
C16_AsStated ==
    (ValidatedCall /\ result.kind = "Err") =>
        result.error.args = ExpectedArgs(result.error)

----------------------------------------------------------------------------
(* Properties across the orders of the unstable sort and across the two
   constructors. *)

\* the arrays new_directed sorted: the caller's own, or the symmetrized ones
\* new_undirected handed over
BuiltSources ==
    IF op = "new_undirected" THEN full_sources(sources, destinations)
    ELSE sources

BuiltDestinations ==
    IF op = "new_undirected" THEN full_destinations(sources, destinations)
    ELSE destinations

BuiltEdgeTypes ==
    IF op = "new_undirected"
    THEN full_edge_types(sources, destinations, edge_types)
    ELSE edge_types

BuiltWeights ==
    IF op = "new_undirected" THEN full_weights(sources, destinations, weights)
    ELSE weights

\* the order a stable sort by source leaves: ascending source, equal sources
\* in input order
StableOrder(srcs) ==
    LET n == Len(srcs)
        Rank(i) == Cardinality({j \in 0..(n - 1) :
                                   \/ At(srcs, j) < At(srcs, i)
                                   \/ At(srcs, j) = At(srcs, i) /\ j < i})
    IN  [k \in 1..n |-> CHOOSE i \in 0..(n - 1) : Rank(i) = k - 1]

\* the outcome of the run of the same call in which the sort keeps equal
\* sources in input order
ReferenceRun ==
    BuildGraph(BuiltSources, BuiltDestinations, nodes_mapping_len,
               nodes_reverse_mapping_len, node_types, BuiltEdgeTypes,
               BuiltWeights, StableOrder(BuiltSources))

\* the multiset of (destination, weight, edgeType) rows of Graph g inside the
\* range [offset[i-1], offset[i]) of node i
RangeRows(g, i) ==
    LET lo == IF i = 0 THEN 0 ELSE At(g.outbounds, i - 1)
        hi == At(g.outbounds, i)
        P == {p \in 1..Len(g.sources) : lo < p /\ p <= hi}
        Row(p) == <<g.destinations[p], WeightAt(g.weights, p),
                    EdgeTypeAt(g.edge_types, p)>>
    IN  [r \in {Row(p) : p \in P} |-> Cardinality({p \in P : Row(p) = r})]

\* C17: whatever order the unstable sort gives to edges of equal source, the
\* returned Graph agrees with the Graph of the run that keeps them in input
\* order (hence any two runs agree with each other) on the sources array,
\* the offset table, the dedup index, edgeCount and, for every node i, the
\* multiset of (destination, weight, edgeType) rows inside node i's range.
C17_RunsAgreeUpToTieOrder ==
    Returned =>
        LET other == ReferenceRun
        IN  /\ other.kind = "Graph"
            /\ result.graph.sources = other.graph.sources
            /\ result.graph.outbounds = other.graph.outbounds
            /\ result.graph.unique_edges = other.graph.unique_edges
            /\ EdgeCount = Len(other.graph.sources)
            /\ Len(result.graph.destinations) = Len(other.graph.destinations)
            /\ \A i \in 0..(NodeCount - 1) :
                  RangeRows(result.graph, i) = RangeRows(other.graph, i)

\* C17 witness: a run whose sort reordered edges of equal source, with
\* weights, and whose destinations array differs from that of the run
\* keeping input order.
C17_Witness ==
    /\ Returned
    /\ NodeCount >= 1
    /\ weights.some
    /\ order # StableOrder(BuiltSources)
    /\ result.graph.destinations # ReferenceRun.graph.destinations

\* C19: for every input validate accepts, the symmetrized arrays that
\* new_undirected hands to new_directed are accepted by validate as well, and
\* new_directed run on them with validation on gives, for the same order of
\* the sort, the outcome new_undirected returned.
C19_DelegationWithoutValidationIsSound ==
    (/\ ValidatedCall
     /\ op = "new_undirected"
     /\ InputCheck.ok) =>
        /\ validate(full_sources(sources, destinations),
                    full_destinations(sources, destinations),
                    nodes_mapping_len, nodes_reverse_mapping_len, node_types,
                    full_edge_types(sources, destinations, edge_types),
                    full_weights(sources, destinations, weights)).ok
        /\ new_directed_sorted(
               full_sources(sources, destinations),
               full_destinations(sources, destinations),
               nodes_mapping_len, nodes_reverse_mapping_len, node_types,
               full_edge_types(sources, destinations, edge_types),
               full_weights(sources, destinations, weights),
               Some(TRUE), order).result = result

\* C19 witness: new_undirected built a Graph from a validated input with
\* node types, weights, edge types, a self-loop and a mirrored edge.
C19_Witness ==
    /\ ValidatedCall
    /\ op = "new_undirected"
    /\ InputCheck.ok
    /\ result.kind = "Graph"
    /\ node_types.some
    /\ weights.some
    /\ edge_types.some
    /\ \E i \in InputPairIndices : At(sources, i) = At(destinations, i)
    /\ \E i \in InputPairIndices : At(sources, i) # At(destinations, i)

\* C20 as stated: in every Graph returned by new_undirected the key set of
\* the dedup index is closed under reversal and equals the set of input
\* pairs together with their reversals (read for the validated inputs that
\* name only declared nodes).
C20_AsStated ==
    (Returned /\ op = "new_undirected" /\ ValidatedInRange) =>
        LET keys == DOMAIN result.graph.unique_edges
            pairs == {InputPairAt(i) : i \in InputPairIndices}
        IN  /\ \A key \in keys : <<key[2], key[1]>> \in keys
            /\ keys = pairs \cup {<<pair[2], pair[1]>> : pair \in pairs}

----------------------------------------------------------------------------
(* One data-parallel pass of the constructors, item by item: the workers of
   the fork-join scheduler take the items of the pass in any order and
   interleaving, each runs the closure of the pass on its item and fills the
   slot of that item; the collect joins the slots in item order. *)

Workers == {"w1", "w2"}

\* the passes: the self-loop mask, the four mirrored-array filters of
\* new_undirected, the four gathers of new_directed
FilterPasses ==
    {"full_sources", "full_destinations", "full_edge_types", "full_weights"}

GatherPasses ==
    {"sorted_sources", "sorted_destinations", "sorted_weights",
     "sorted_edge_types"}

Passes == {"loops_mask"} \cup FilterPasses \cup GatherPasses

\* .map(|(a, b)| a == b)
loops_mask_item(a, b) == a = b

\* faulty variant: the filter keeps the masked items
filter_item_keeps_masked(value, mask) == IF mask THEN <<value>> ELSE <<>>

\* .filter(|&(_, &mask)| !mask).map(|(value, _)| *value): what one zipped
\* item contributes, nothing or its value
filter_item(value, mask) == IF mask THEN <<>> ELSE <<value>>

\* .map(|&&x| v[x])
gather_item(v, x) == At(v, x)

\* the array a pass iterates over next to the mask or through the indices
PassArray(pass) ==
    CASE pass \in {"full_sources", "sorted_destinations"} -> destinations
      [] pass \in {"full_destinations", "sorted_sources"} -> sources
      [] pass \in {"full_edge_types", "sorted_edge_types"} -> edge_types.v
      [] pass \in {"full_weights", "sorted_weights"} -> weights.v
      [] OTHER -> sources

\* how many items the pass has: a zip has as many as its shorter side
PassLen(pass, idx) ==
    CASE pass = "loops_mask" -> Min(Len(sources), Len(destinations))
      [] pass \in FilterPasses ->
            Min(Len(PassArray(pass)), Len(loops_mask(sources, destinations)))
      [] OTHER -> Len(idx)

\* what the closure of the pass yields on item k (1-based), reading only
\* the caller's arrays, the finished mask and the finished indices
ItemOutput(pass, idx, k) ==
    CASE pass = "loops_mask" ->
            <<loops_mask_item(sources[k], destinations[k])>>
      [] pass \in FilterPasses ->
            filter_item(PassArray(pass)[k],
                        loops_mask(sources, destinations)[k])
      [] OTHER -> <<gather_item(PassArray(pass), idx[k])>>

\* the array the pass yields when run as the sequential constructor runs it
Sequential(pass, idx) ==
    CASE pass = "loops_mask" -> loops_mask(sources, destinations)
      [] pass \in FilterPasses ->
            FilterNotMask(PassArray(pass),
                          loops_mask(sources, destinations), 1)
      [] OTHER -> Gather(idx, PassArray(pass))

\* the pass forked: no item taken, no slot filled
StartPass(pass, idx) ==
    [pass |-> pass,
     indices |-> idx,
     job |-> [k \in 1..PassLen(pass, idx) |-> "none"],
     done |-> [k \in 1..PassLen(pass, idx) |-> FALSE],
     slot |-> [k \in 1..PassLen(pass, idx) |-> <<>>],
     writes |-> [k \in 1..PassLen(pass, idx) |-> 0],
     joined |-> FALSE,
     output |-> <<>>]

\* collect(): the slots joined in item order
RECURSIVE Collect(_, _)
Collect(slot, k) ==
    IF k > Len(slot) THEN <<>> ELSE slot[k] \o Collect(slot, k + 1)

\* Arguments of a pass: edges of full length, each a self-loop or not, with
\* weights and edge types; for a gather, any indices the sort may have left.
ParInit ==
    /\ sources \in SeqsOfLen(NodeIds, {MaxEdges})
    /\ destinations \in
          {d \in SeqsOfLen(NodeIds, {MaxEdges}) :
              \A i \in 1..MaxEdges :
                  d[i] \in {sources[i], (sources[i] + 1) % (MaxNodeId + 1)}}
    /\ weights = Some(TaggedWeights(MaxEdges))
    /\ edge_types = Some(TaggedEdgeTypes(MaxEdges))
    /\ nodes_reverse_mapping_len = MaxNodeId + 1
    /\ nodes_mapping_len = nodes_reverse_mapping_len
    /\ node_types = None
    /\ validate_input_data = NoneBool
    /\ pc = "ready"
    /\ op = "none"
    /\ result = [kind |-> "None"]
    /\ validated = <<>>
    /\ order = <<>>
    /\ \E pass \in Passes :
          \E idx \in (IF pass \in GatherPasses
                      THEN par_sort_unstable_by_key(sources)
                      ELSE {<<>>}) :
              par = StartPass(pass, idx)

\* worker w takes item k, which no worker has taken yet
Take(w, k) ==
    /\ ~par.joined
    /\ par.job[k] = "none"
    /\ par' = [par EXCEPT !.job[k] = w]
    /\ UNCHANGED <<Inputs, pc, op, result, validated, order>>

\* worker w runs the closure on its item k and fills the slot of k
Fill(w, k) ==
    /\ ~par.joined
    /\ par.job[k] = w
    /\ ~par.done[k]
    /\ par' = [par EXCEPT !.slot[k] = ItemOutput(par.pass, par.indices, k),
                          !.writes[k] = @ + 1,
                          !.done[k] = TRUE]
    /\ UNCHANGED <<Inputs, pc, op, result, validated, order>>

\* every item is done: the pass joins and hands over the collected array
Join ==
    /\ ~par.joined
    /\ \A k \in DOMAIN par.done : par.done[k]
    /\ par' = [par EXCEPT !.joined = TRUE, !.output = Collect(par.slot, 1)]
    /\ UNCHANGED <<Inputs, pc, op, result, validated, order>>

ParNext ==
    \/ \E w \in Workers, k \in DOMAIN par.job : Take(w, k)
    \/ \E w \in Workers, k \in DOMAIN par.job : Fill(w, k)
    \/ Join

ParSpec == ParInit /\ [][ParNext]_vars

====
